---- MODULE Spec2Model ----
(***************************************************************************)
(* Module resolution and merge of imery layouts.                           *)
(*                                                                         *)
(*   Lang.load_main_module   (src/src/imery/lang.py): breadth-first,       *)
(*       strict, widget keys qualified by module name, merged              *)
(*       collections held by the Lang instance.                            *)
(*   YAMLAggregator          (src/scripts/aggregate_demo_yaml.py):         *)
(*       depth-first, permissive, flat widget keys.                        *)
(*                                                                         *)
(* A module name, a widget key and a path are sequences of one-character   *)
(* strings, so that iterating a string, joining names with "." and         *)
(* replacing "." by "/" are computed as Python computes them.              *)
(***************************************************************************)
EXTENDS Integers, Sequences, FiniteSets, TLC

VARIABLES
    prog,                \* "lang" or "agg": which resolver this run drives
    disk,                \* directory -> (file path -> file)
    dir_kind,            \* directory -> "dir" | "missing" | "file"
    \* ---- Lang instance
    layouts_paths,       \* self._layouts_paths
    widget_definitions,  \* self._widget_definitions
    data_definitions,    \* self._data_definitions
    lang_app_config,     \* self._app_config
    queue,               \* local deque of load_main_module
    visited,             \* local set of load_main_module
    pc,                  \* "idle" (constructed or disposed) | "loop" | "returned"
    result,              \* what load_main_module returned
    calls,               \* load_main_module calls made on this instance
    \* ---- YAMLAggregator instance
    search_paths,        \* self.search_paths
    widgets,             \* self.widgets
    data,                \* self.data
    app_config,          \* self.app_config
    visited_modules,     \* self.visited_modules
    stack,               \* call stack of process_module frames
    apc,                 \* "idle" | "run" | "built" | "exit"
    document,            \* what aggregate returned
    again,               \* a fresh aggregator run on the saved document
    \* ---- history of the current resolution (observation only)
    located,             \* module names handed to the locator, in order
    loaded,              \* module names whose file was opened, in order
    opened,              \* [module, dir, path] of every file the locator returned
    merged,              \* module names whose contributions were merged, in order
    wrote,               \* <<kind, module, key>> of every insertion into a merged mapping
    skips,               \* module names skipped as already visited, in order
    entry,               \* merged collections as they were when the call began
    returns              \* what each finished load_main_module call returned and left

vars == <<prog, disk, dir_kind, layouts_paths, widget_definitions, data_definitions,
          lang_app_config, queue, visited, pc, result, calls,
          search_paths, widgets, data, app_config, visited_modules, stack,
          apc, document, again, located, loaded, opened, merged, wrote, skips,
          entry, returns>>

langVars == <<layouts_paths, widget_definitions, data_definitions,
              lang_app_config, queue, visited, pc, result, calls>>

aggVars == <<search_paths, widgets, data, app_config, visited_modules, stack,
             apc, document, again>>

-----------------------------------------------------------------------------
(* Names *)

Mm == <<"m">>
Ma == <<"a">>
Mb == <<"b">>
Mc == <<"c">>
Mab == <<"a", "b">>
Mdot == <<"a", ".", "b">>
Builtin == <<"b", "u", "i", "l", "t", "i", "n">>

Wx == <<"x">>
Wy == <<"y">>
Wbx == <<"b", ".", "x">>
Dk == <<"k">>

BuiltinDir == "frontend/layouts"
LayoutsDir == "layouts"
ExtraDir == "extra"

None == "None"

\* Python's str.replace('.', '/') on a module name.
Replace(s, old, new) ==
    [i \in 1..Len(s) |-> IF s[i] = old THEN new ELSE s[i]]

\* f"{module_path}.yaml"
YamlFilename(module_name) ==
    Replace(module_name, ".", "/") \o <<".yaml">>

-----------------------------------------------------------------------------
(* Module files *)

NoImport == [kind |-> "absent", names |-> <<>>, str |-> <<>>]
ImportList(names) == [kind |-> "list", names |-> names, str |-> <<>>]
ImportStr(s) == [kind |-> "str", names |-> <<>>, str |-> s]

NoApp == [present |-> FALSE, val |-> None]
App(v) == [present |-> TRUE, val |-> v]

\* An ordered mapping is a sequence of [k, v] entries with distinct keys.
Entry(k, v) == [k |-> k, v |-> v]

EmptyFile ==
    [parses |-> TRUE, import |-> NoImport, widgets |-> <<>>, data |-> <<>>,
     app |-> NoApp]

Malformed == [EmptyFile EXCEPT !.parses = FALSE]

Keys(mapping) == {mapping[i].k : i \in 1..Len(mapping)}


-----------------------------------------------------------------------------
(* Module Locator and Loader *)

NotFound == [found |-> FALSE, dir |-> "", path |-> <<>>]

Min(S) == CHOOSE i \in S : \A j \in S : i <= j

Max(S) == CHOOSE i \in S : \A j \in S : i >= j

\* Mutant: the last directory that holds the file wins.
FindFile_Last(paths, module_name) ==
    LET filename == YamlFilename(module_name)
        hits == {i \in 1..Len(paths) : filename \in DOMAIN disk[paths[i]]}
    IN  IF hits = {} THEN NotFound
        ELSE [found |-> TRUE, dir |-> paths[Max(hits)], path |-> filename]

\* The first directory of paths, in order, that holds the module's file.
FindFile(paths, module_name) ==
    LET filename == YamlFilename(module_name)
        hits == {i \in 1..Len(paths) : filename \in DOMAIN disk[paths[i]]}
    IN  IF hits = {} THEN NotFound
        ELSE [found |-> TRUE, dir |-> paths[Min(hits)], path |-> filename]

FileAt(module_file) == disk[module_file.dir][module_file.path]

\* yaml.safe_load in Lang: an exception becomes an error result.
LangLoad(module_file) ==
    IF FileAt(module_file).parses
    THEN [ok |-> TRUE, content |-> FileAt(module_file)]
    ELSE [ok |-> FALSE, content |-> EmptyFile]

\* YAMLAggregator.load_yaml: an exception is printed and {} is returned.
load_yaml(module_file) ==
    IF FileAt(module_file).parses THEN FileAt(module_file) ELSE EmptyFile

-----------------------------------------------------------------------------
(* Lang: merge steps of one loop iteration *)

Ok == [kind |-> "Ok", what |-> <<>>]
Running == [kind |-> "none", what |-> <<>>]
Error(kind, what) == [kind |-> kind, what |-> what]

\* f"{current_module}.{widget_name}"
FullName(current_module, widget_name) ==
    current_module \o <<".">> \o widget_name

\* for widget_name, widget_def in widgets.items(): ... (lang.py 92-96)
RECURSIVE LangMergeWidgetsFrom(_, _, _, _)
LangMergeWidgetsFrom(defs, current_module, ws, i) ==
    IF i > Len(ws) THEN [ok |-> TRUE, defs |-> defs, dup |-> <<>>]
    ELSE LET full_name == FullName(current_module, ws[i].k)
         IN  IF full_name \in DOMAIN defs
             THEN [ok |-> FALSE, defs |-> defs, dup |-> full_name]
             ELSE LangMergeWidgetsFrom((full_name :> ws[i].v) @@ defs,
                                       current_module, ws, i + 1)

\* Mutant: a name already present is overwritten instead of refused.
RECURSIVE OverwriteWidgetsFrom(_, _, _, _)
OverwriteWidgetsFrom(defs, current_module, ws, i) ==
    IF i > Len(ws) THEN [ok |-> TRUE, defs |-> defs, dup |-> <<>>]
    ELSE OverwriteWidgetsFrom(
             (FullName(current_module, ws[i].k) :> ws[i].v) @@ defs,
             current_module, ws, i + 1)

LangMergeWidgets_Overwrite(defs, current_module, ws) ==
    OverwriteWidgetsFrom(defs, current_module, ws, 1)

LangMergeWidgets(defs, current_module, ws) ==
    LangMergeWidgetsFrom(defs, current_module, ws, 1)

\* for data_name, data_def in data.items(): ... (lang.py 100-103)
RECURSIVE LangMergeDataFrom(_, _, _)
LangMergeDataFrom(defs, ds, i) ==
    IF i > Len(ds) THEN [ok |-> TRUE, defs |-> defs, dup |-> <<>>]
    ELSE IF ds[i].k \in DOMAIN defs
         THEN [ok |-> FALSE, defs |-> defs, dup |-> ds[i].k]
         ELSE LangMergeDataFrom((ds[i].k :> ds[i].v) @@ defs, ds, i + 1)

\* Mutant: a data key already present is overwritten instead of refused.
RECURSIVE OverwriteDataFrom(_, _, _)
OverwriteDataFrom(defs, ds, i) ==
    IF i > Len(ds) THEN [ok |-> TRUE, defs |-> defs, dup |-> <<>>]
    ELSE OverwriteDataFrom((ds[i].k :> ds[i].v) @@ defs, ds, i + 1)

LangMergeData_Overwrite(defs, ds) == OverwriteDataFrom(defs, ds, 1)

LangMergeData(defs, ds) == LangMergeDataFrom(defs, ds, 1)

\* app = module_content.get("app"); if app is not None: ... (lang.py 106-110)
LangMergeApp(config, app) ==
    IF app.val = None THEN [ok |-> TRUE, config |-> config]
    ELSE IF config # None THEN [ok |-> FALSE, config |-> config]
    ELSE [ok |-> TRUE, config |-> app.val]

\* What queue.extend(imports) appends: the elements of a list, the characters
\* of a string.
LangImportItems(import) ==
    IF import.kind = "str"
    THEN [i \in 1..Len(import.str) |-> <<import.str[i]>>]
    ELSE import.names

\* imports = module_content.get("import", []); if imports: queue.extend(imports)
LangExtend(q, import) == q \o LangImportItems(import)

\* Mutant: a module without a file is skipped and the loop goes on.
LangNotFound_Skip(current_module) == Running

\* if module_file is None: return Result.error(...) (lang.py 77-78)
LangNotFound(current_module) == Error("ModuleNotFound", current_module)

\* except Exception as e: return Result.error(...) (lang.py 84-85)
LangLoadFailed(module_file) == Error("ParseError", module_file.path)

\* Mutant: the visited check is gone.
LangSkip_Never(current_module, seen) == FALSE

\* if current_module in visited: continue
LangSkip(current_module, seen) == current_module \in seen

\* path.exists() and path.is_dir()
ValidDir(path) == dir_kind[path] = "dir"

\* Lang.init: the first search path that does not exist or is not a directory
\* is an error.
LangInitResult ==
    LET bad == {i \in 1..Len(layouts_paths) : ~ValidDir(layouts_paths[i])}
    IN  IF bad = {} THEN Ok
        ELSE IF dir_kind[layouts_paths[Min(bad)]] = "missing"
        THEN Error("SearchPathMissing", layouts_paths[Min(bad)])
        ELSE Error("SearchPathNotDir", layouts_paths[Min(bad)])

\* Validate final state (lang.py 118-124)
LangValidate(defs, config) ==
    IF DOMAIN defs = {} THEN Error("MissingWidgets", <<>>)
    ELSE IF config = None THEN Error("MissingApp", <<>>)
    ELSE Ok

\* History record of a file the locator returned for a module.
Opened(module_name, module_file) ==
    [module |-> module_name, dir |-> module_file.dir,
     path |-> module_file.path]

\* The entries of mapping ws that a merge inserted, as history records.
Inserted(kind, module, ws, n) ==
    [i \in 1..n |-> <<kind, module, ws[i].k>>]

RECURSIVE CountNew(_, _, _, _)
CountNew(before, current_module, ws, i) ==
    IF i > Len(ws) \/ FullName(current_module, ws[i].k) \in DOMAIN before
    THEN i - 1
    ELSE CountNew(before, current_module, ws, i + 1)

RECURSIVE CountNewData(_, _, _)
CountNewData(before, ds, i) ==
    IF i > Len(ds) \/ ds[i].k \in DOMAIN before THEN i - 1
    ELSE CountNewData(before, ds, i + 1)


-----------------------------------------------------------------------------
(* Lang.load_main_module *)

MaxCalls == 2

FirstMain == Mm
LaterMains == {Mm, Mb}

Snapshot == [widgets |-> widget_definitions, data |-> data_definitions,
             app |-> lang_app_config]

\* Lang.init(), called on the instance as constructed; it changes nothing of
\* the instance.
LangInit ==
    /\ prog = "lang" /\ pc = "idle" /\ calls = 0 /\ result = Running
    /\ result' = LangInitResult
    /\ UNCHANGED <<prog, disk, dir_kind, layouts_paths, widget_definitions,
                   data_definitions, lang_app_config, queue, visited, pc,
                   calls, located, loaded, opened, merged, wrote, skips,
                   entry, returns>>
    /\ UNCHANGED aggVars

\* History record of a finished load_main_module call: its argument, whether
\* the instance's collections were empty when it began, what it returned and
\* what it left in the instance; disposed is set by a dispose() that follows.
Returned(module_name, res, defs, ddefs, config) ==
    [module_name |-> module_name,
     fresh |-> entry = [widgets |-> <<>>, data |-> <<>>, app |-> None],
     result |-> res,
     widgets |-> defs, data |-> ddefs, app |-> config,
     disposed |-> FALSE]

\* queue = deque([module_name, "builtin"]); visited = set()
LoadMainModule(module_name) ==
    /\ prog = "lang"
    /\ pc \in {"idle", "returned"}
    /\ calls < MaxCalls
    /\ queue' = <<module_name, Builtin>>
    /\ visited' = {}
    /\ pc' = "loop"
    /\ result' = Running
    /\ calls' = calls + 1
    /\ located' = <<>> /\ loaded' = <<>> /\ merged' = <<>> /\ wrote' = <<>>
    /\ opened' = <<>>
    /\ skips' = <<>>
    /\ entry' = Snapshot
    /\ UNCHANGED <<prog, disk, dir_kind, layouts_paths, widget_definitions,
                   data_definitions, lang_app_config, returns>>
    /\ UNCHANGED aggVars

FirstLoad ==
    /\ calls = 0
    /\ LoadMainModule(FirstMain)

LaterLoad ==
    /\ calls > 0
    /\ \E module_name \in LaterMains : LoadMainModule(module_name)

\* One pass of the while loop for a module not yet visited, from the locator
\* to queue.extend: the merged collections, the queue and the result after it
\* (result "none": the loop goes on).
LangBody(current_module, rest) ==
    LET module_file == FindFile(layouts_paths, current_module)
        same == [wd |-> widget_definitions, dd |-> data_definitions,
                 app |-> lang_app_config, queue |-> rest,
                 loaded |-> FALSE, merged |-> FALSE, nw |-> 0, nd |-> 0,
                 result |-> Running]
    IN  IF ~module_file.found
        THEN [same EXCEPT !.result = LangNotFound(current_module)]
        ELSE
        LET yaml == LangLoad(module_file)
            content == yaml.content
        IN  IF ~yaml.ok
            THEN [same EXCEPT !.loaded = TRUE,
                              !.result = LangLoadFailed(module_file)]
            ELSE
            LET w == LangMergeWidgets(widget_definitions, current_module,
                                      content.widgets)
                nw == CountNew(widget_definitions, current_module,
                               content.widgets, 1)
                d == LangMergeData(data_definitions, content.data)
                nd == CountNewData(data_definitions, content.data, 1)
                a == LangMergeApp(lang_app_config, content.app)
                got == [same EXCEPT !.loaded = TRUE, !.merged = TRUE,
                                    !.wd = w.defs, !.nw = nw]
            IN  IF ~w.ok
                THEN [got EXCEPT !.result = Error("DuplicateWidget", w.dup)]
                ELSE IF ~d.ok
                THEN [got EXCEPT !.dd = d.defs, !.nd = nd,
                                 !.result = Error("DuplicateData", d.dup)]
                ELSE IF ~a.ok
                THEN [got EXCEPT !.dd = d.defs, !.nd = nd,
                                 !.result = Error("MultipleApp", current_module)]
                ELSE [got EXCEPT !.dd = d.defs, !.nd = nd, !.app = a.config,
                                 !.queue = LangExtend(rest, content.import)]

\* current_module = queue.popleft(); if current_module in visited: continue
LangRevisit ==
    /\ prog = "lang" /\ pc = "loop" /\ queue # <<>>
    /\ LangSkip(Head(queue), visited)
    /\ queue' = Tail(queue)
    /\ skips' = Append(skips, Head(queue))
    /\ UNCHANGED <<prog, disk, dir_kind, layouts_paths, widget_definitions,
                   data_definitions, lang_app_config, visited, pc, result,
                   calls, located, loaded, opened, merged, wrote, entry,
                   returns>>
    /\ UNCHANGED aggVars

\* visited.add(current_module) and the rest of the loop body
LangVisit ==
    /\ prog = "lang" /\ pc = "loop" /\ queue # <<>>
    /\ ~LangSkip(Head(queue), visited)
    /\ LET current_module == Head(queue)
           out == LangBody(current_module, Tail(queue))
           content == FileAt(FindFile(layouts_paths, current_module))
       IN  /\ visited' = visited \cup {current_module}
           /\ widget_definitions' = out.wd
           /\ data_definitions' = out.dd
           /\ lang_app_config' = out.app
           /\ queue' = out.queue
           /\ result' = out.result
           /\ pc' = IF out.result = Running THEN "loop" ELSE "returned"
           /\ located' = Append(located, current_module)
           /\ loaded' = IF out.loaded THEN Append(loaded, current_module)
                        ELSE loaded
           /\ opened' = IF out.loaded
                        THEN Append(opened,
                                    Opened(current_module,
                                           FindFile(layouts_paths,
                                                    current_module)))
                        ELSE opened
           /\ merged' = IF out.merged THEN Append(merged, current_module)
                        ELSE merged
           /\ wrote' = IF out.merged
                       THEN wrote
                            \o Inserted("widget", current_module,
                                        content.widgets, out.nw)
                            \o Inserted("data", current_module,
                                        content.data, out.nd)
                            \o (IF out.app # lang_app_config
                                THEN <<<<"app", current_module, <<>>>>>>
                                ELSE <<>>)
                       ELSE wrote
           /\ returns' = IF out.result = Running THEN returns
                         ELSE Append(returns,
                                     Returned(IF located = <<>>
                                              THEN current_module
                                              ELSE located[1],
                                              out.result, out.wd, out.dd,
                                              out.app))
    /\ UNCHANGED <<prog, disk, dir_kind, layouts_paths, calls, skips, entry>>
    /\ UNCHANGED aggVars

\* The queue is empty: validate and return.
LangReturn ==
    /\ prog = "lang" /\ pc = "loop" /\ queue = <<>>
    /\ result' = LangValidate(widget_definitions, lang_app_config)
    /\ pc' = "returned"
    /\ returns' = Append(returns,
                         Returned(located[1], result', widget_definitions,
                                  data_definitions, lang_app_config))
    /\ UNCHANGED <<prog, disk, dir_kind, layouts_paths, widget_definitions,
                   data_definitions, lang_app_config, queue, visited, calls,
                   located, loaded, opened, merged, wrote, skips, entry>>
    /\ UNCHANGED aggVars

\* Lang.dispose
Dispose ==
    /\ prog = "lang" /\ pc = "returned"
    /\ widget_definitions' = <<>>
    /\ data_definitions' = <<>>
    /\ lang_app_config' = None
    /\ pc' = "idle"
    /\ returns' = [returns EXCEPT ![Len(returns)].disposed = TRUE]
    /\ UNCHANGED <<prog, disk, dir_kind, layouts_paths, queue, visited, result,
                   calls, located, loaded, opened, merged, wrote, skips,
                   entry>>
    /\ UNCHANGED aggVars

LangNext ==
    \/ LangInit
    \/ FirstLoad
    \/ LaterLoad
    \/ LangRevisit
    \/ LangVisit
    \/ LangReturn
    \/ Dispose


-----------------------------------------------------------------------------
(* YAMLAggregator *)

AggMain == Mm

\* imports = module_content.get('import', []);
\* if isinstance(imports, str): imports = [imports]
AggImports(import) ==
    IF import.kind = "str" THEN <<import.str>> ELSE import.names

\* self.widgets[widget_name] = (module_name, widget_def), for every entry
RECURSIVE AggMergeWidgetsFrom(_, _, _, _)
AggMergeWidgetsFrom(defs, module_name, ws, i) ==
    IF i > Len(ws) THEN defs
    ELSE AggMergeWidgetsFrom(
             (ws[i].k :> [module |-> module_name, def |-> ws[i].v]) @@ defs,
             module_name, ws, i + 1)

\* Mutant: the first definition of a key is kept.
RECURSIVE KeepWidgetsFrom(_, _, _, _)
KeepWidgetsFrom(defs, module_name, ws, i) ==
    IF i > Len(ws) THEN defs
    ELSE KeepWidgetsFrom(
             defs @@ (ws[i].k :> [module |-> module_name, def |-> ws[i].v]),
             module_name, ws, i + 1)

AggMergeWidgets_KeepFirst(defs, module_name, ws) ==
    KeepWidgetsFrom(defs, module_name, ws, 1)

AggMergeWidgets(defs, module_name, ws) ==
    AggMergeWidgetsFrom(defs, module_name, ws, 1)

\* self.data[data_name] = data_def, for every entry
RECURSIVE AggMergeDataFrom(_, _, _)
AggMergeDataFrom(defs, ds, i) ==
    IF i > Len(ds) THEN defs
    ELSE AggMergeDataFrom((ds[i].k :> ds[i].v) @@ defs, ds, i + 1)

\* Mutant: the first definition of a data key is kept.
RECURSIVE KeepDataFrom(_, _, _)
KeepDataFrom(defs, ds, i) ==
    IF i > Len(ds) THEN defs
    ELSE KeepDataFrom(defs @@ (ds[i].k :> ds[i].v), ds, i + 1)

AggMergeData_KeepFirst(defs, ds) == KeepDataFrom(defs, ds, 1)

AggMergeData(defs, ds) == AggMergeDataFrom(defs, ds, 1)

\* Mutant: a second app block is ignored.
AggMergeApp_KeepFirst(config, app) ==
    IF app.present /\ config = None THEN app.val ELSE config

\* if 'app' in module_content: self.app_config = module_content['app']
AggMergeApp(config, app) ==
    IF app.present THEN app.val ELSE config

\* if module_name in self.visited_modules: return
AggSkip(module_name, seen) == module_name \in seen

\* Mutant: the loop over the imports is skipped.
Frame_NoImports(module_name, content) ==
    [module_name |-> module_name, content |-> content,
     imports |-> AggImports(content.import),
     next |-> Len(AggImports(content.import)) + 1]

Frame(module_name, content) ==
    [module_name |-> module_name, content |-> content,
     imports |-> AggImports(content.import), next |-> 1]

\* process_module(module_name) from its first line to the start of the loop
\* over the imports: stk is the caller's stack.
Enter(module_name, stk) ==
    IF AggSkip(module_name, visited_modules)
    THEN /\ stack' = stk
         /\ skips' = Append(skips, module_name)
         /\ UNCHANGED <<visited_modules, located, loaded, opened>>
    ELSE /\ visited_modules' = visited_modules \cup {module_name}
         /\ located' = Append(located, module_name)
         /\ UNCHANGED skips
         /\ LET module_file == FindFile(search_paths, module_name)
            IN  IF ~module_file.found
                THEN /\ stack' = stk
                     /\ UNCHANGED <<loaded, opened>>
                ELSE /\ stack' = <<Frame(module_name, load_yaml(module_file))>>
                                 \o stk
                     /\ loaded' = Append(loaded, module_name)
                     /\ opened' = Append(opened,
                                         Opened(module_name, module_file))

\* main: args.demo_dir.exists() and args.demo_dir.is_dir()
DemoDirValid == ValidDir(search_paths[1])

\* main: the demo directory is missing or is not a directory: sys.exit(1)
MainExit ==
    /\ prog = "agg" /\ apc = "idle"
    /\ ~DemoDirValid
    /\ apc' = "exit"
    /\ UNCHANGED <<prog, disk, dir_kind, search_paths, widgets, data,
                   app_config, visited_modules, stack, document, again,
                   located, loaded, opened, merged, wrote, skips, entry,
                   returns>>
    /\ UNCHANGED langVars

\* main, once the demo directory is validated:
\* aggregate(main_module): self.process_module(main_module)
Aggregate ==
    /\ prog = "agg" /\ apc = "idle"
    /\ DemoDirValid
    /\ apc' = "run"
    /\ Enter(AggMain, <<>>)
    /\ UNCHANGED <<prog, disk, dir_kind, search_paths, widgets, data, app_config,
                   document, again, merged, wrote, entry, returns>>
    /\ UNCHANGED langVars

\* for imported_module in imports: self.process_module(imported_module)
AggRecurse ==
    /\ prog = "agg" /\ apc = "run" /\ stack # <<>>
    /\ Head(stack).next <= Len(Head(stack).imports)
    /\ LET top == Head(stack)
       IN  Enter(top.imports[top.next],
                 <<[top EXCEPT !.next = top.next + 1]>> \o Tail(stack))
    /\ UNCHANGED <<prog, disk, dir_kind, search_paths, widgets, data,
                   app_config, apc, document, again, merged, wrote, entry,
                   returns>>
    /\ UNCHANGED langVars

\* The imports are done: merge this module's widgets, data and app, return.
AggMerge ==
    /\ prog = "agg" /\ apc = "run" /\ stack # <<>>
    /\ Head(stack).next > Len(Head(stack).imports)
    /\ LET top == Head(stack)
           content == top.content
       IN  /\ widgets' = AggMergeWidgets(widgets, top.module_name,
                                         content.widgets)
           /\ data' = AggMergeData(data, content.data)
           /\ app_config' = AggMergeApp(app_config, content.app)
           /\ merged' = Append(merged, top.module_name)
           /\ wrote' = wrote
                       \o Inserted("widget", top.module_name, content.widgets,
                                   Len(content.widgets))
                       \o Inserted("data", top.module_name, content.data,
                                   Len(content.data))
                       \o (IF content.app.present
                           THEN <<<<"app", top.module_name, <<>>>>>>
                           ELSE <<>>)
    /\ stack' = Tail(stack)
    /\ UNCHANGED <<prog, disk, dir_kind, search_paths, visited_modules, apc,
                   document, again, located, loaded, opened, skips, entry,
                   returns>>
    /\ UNCHANGED langVars

\* Python truth value of an app definition
Truthy(v) == v \notin {None, "empty"}

NoDocument == [sections |-> <<>>, app |-> None, widgets |-> <<>>, data |-> <<>>]

\* self.process_widget_references(obj) on an opaque scalar
process_widget_references(obj) == obj

\* Build final structure (aggregate_demo_yaml.py 121-139)
BuildResult ==
    [sections |-> (IF Truthy(app_config) THEN <<"app">> ELSE <<>>)
                  \o (IF DOMAIN widgets # {} THEN <<"widgets">> ELSE <<>>)
                  \o (IF DOMAIN data # {} THEN <<"data">> ELSE <<>>),
     app |-> IF Truthy(app_config) THEN process_widget_references(app_config)
             ELSE None,
     widgets |-> [k \in DOMAIN widgets |->
                     process_widget_references(widgets[k].def)],
     data |-> [k \in DOMAIN data |-> process_widget_references(data[k])]]

AggReturn ==
    /\ prog = "agg" /\ apc = "run" /\ stack = <<>>
    /\ document' = BuildResult
    /\ apc' = "built"
    /\ UNCHANGED <<prog, disk, dir_kind, search_paths, widgets, data, app_config,
                   visited_modules, stack, again, located, loaded, opened,
                   merged, wrote, skips, entry, returns>>
    /\ UNCHANGED langVars

\* A mapping of the document as the entries yaml.safe_load reads back.
RECURSIVE AsEntries(_)
AsEntries(mapping) ==
    IF DOMAIN mapping = {} THEN <<>>
    ELSE LET k == CHOOSE x \in DOMAIN mapping : TRUE
         IN  <<Entry(k, mapping[k])>>
             \o AsEntries([x \in DOMAIN mapping \ {k} |-> mapping[x]])

\* save(output_file, content) and load_yaml of the written file: the keys
\* of content that are present, no import.
SavedFile(content) ==
    [parses |-> TRUE,
     import |-> NoImport,
     widgets |-> IF "widgets" \in {content.sections[i] :
                                      i \in 1..Len(content.sections)}
                 THEN AsEntries(content.widgets) ELSE <<>>,
     data |-> IF "data" \in {content.sections[i] :
                                i \in 1..Len(content.sections)}
              THEN AsEntries(content.data) ELSE <<>>,
     app |-> IF "app" \in {content.sections[i] :
                              i \in 1..Len(content.sections)}
             THEN App(content.app) ELSE NoApp]

OutName == <<"o", "u", "t">>

NotRun == [ran |-> FALSE, widgets |-> <<>>, data |-> <<>>, app_config |-> None,
           visited_modules |-> {}]

\* YAMLAggregator(out_dir).process_module(OutName) on the saved document: a
\* fresh aggregator, one module, no imports.
Reprocess(content) ==
    LET module_content == SavedFile(content)
    IN  [ran |-> TRUE,
         widgets |-> AggMergeWidgets(<<>>, OutName, module_content.widgets),
         data |-> AggMergeData(<<>>, module_content.data),
         app_config |-> AggMergeApp(None, module_content.app),
         visited_modules |-> {OutName}]

\* The document is saved and resolved again.
Reaggregate ==
    /\ prog = "agg" /\ apc = "built" /\ ~again.ran
    /\ again' = Reprocess(document)
    /\ UNCHANGED <<prog, disk, dir_kind, search_paths, widgets, data,
                   app_config, visited_modules, stack, apc, document,
                   located, loaded, opened, merged, wrote, skips, entry,
                   returns>>
    /\ UNCHANGED langVars

AggNext ==
    \/ MainExit
    \/ Aggregate
    \/ AggRecurse
    \/ AggMerge
    \/ AggReturn
    \/ Reaggregate


-----------------------------------------------------------------------------
(* The module trees the resolvers are run on *)

Dirs == {BuiltinDir, LayoutsDir, ExtraDir}

Mods == {Mm, Ma, Mb, Mc, Mab, Mdot, Builtin}

\* The builtin module ships in the package's layouts directory.
Home(module_name) == IF module_name = Builtin THEN BuiltinDir ELSE LayoutsDir

\* An opaque definition, told apart by the module that wrote it.
Tag(module_name) ==
    CASE module_name = Mm -> "def_m"
      [] module_name = Ma -> "def_a"
      [] module_name = Mb -> "def_b"
      [] module_name = Mc -> "def_c"
      [] module_name = Mab -> "def_ab"
      [] module_name = Mdot -> "def_a.b"
      [] OTHER -> "def_builtin"

File(import, ws, ds, app) ==
    [parses |-> TRUE, import |-> import, widgets |-> ws, data |-> ds,
     app |-> app]

W(module_name, keys) ==
    [i \in 1..Len(keys) |-> Entry(keys[i], Tag(module_name))]

\* A tree with every module of Mods at home; files gives the non-empty ones.
Tree(files) ==
    [dir \in Dirs |->
        [p \in {YamlFilename(n) : n \in {x \in Mods : Home(x) = dir}} |->
            LET n == CHOOSE x \in Mods : YamlFilename(x) = p
            IN  IF n \in DOMAIN files THEN files[n] ELSE EmptyFile]]

\* main imports a and b; a imports c; b and c both define widget x.
Fixture ==
    Tree(Mm :> File(ImportList(<<Ma, Mb>>), <<>>, <<>>, App("app_m"))
      @@ Ma :> File(ImportList(<<Mc>>), <<>>, <<>>, NoApp)
      @@ Mb :> File(NoImport, W(Mb, <<Wx>>), <<>>, NoApp)
      @@ Mc :> File(NoImport, W(Mc, <<Wx>>), <<>>, NoApp))

\* root imports leaf; root has a widget, leaf a widget and a data entry.
RootLeaf ==
    Tree(Mm :> File(ImportList(<<Ma>>), W(Mm, <<Wx>>), <<>>, App("app_m"))
      @@ Ma :> File(NoImport, W(Ma, <<Wy>>), W(Ma, <<Dk>>), NoApp))

\* self-import and mutual import
Cyclic ==
    Tree(Mm :> File(ImportList(<<Mm, Ma>>), W(Mm, <<Wx>>), <<>>, App("app_m"))
      @@ Ma :> File(ImportList(<<Mb, Ma>>), <<>>, <<>>, NoApp)
      @@ Mb :> File(ImportList(<<Ma, Mm>>), <<>>, W(Mb, <<Dk>>), NoApp))

\* an import given as a bare string
Bare ==
    Tree(Mm :> File(ImportStr(Mab), W(Mm, <<Wx>>), <<>>, App("app_m"))
      @@ Mab :> File(ImportList(<<Mc>>), W(Mab, <<Wy>>), <<>>, NoApp)
      @@ Mc :> File(NoImport, <<>>, W(Mc, <<Dk>>), NoApp))

\* placeholder files only
Plain == Tree(<<>>)

EditMods == {Mm, Ma, Builtin}

\* One change to one module's file.
Edits ==
    [op : {"remove", "malform"}, module : EditMods, val : {0}]
    \cup {[op |-> "widgets", module |-> n, val |-> W(n, ks)] :
             n \in EditMods, ks \in {<<Wx>>, <<Wy, Wx>>}}
    \cup {[op |-> "data", module |-> n, val |-> W(n, <<Dk>>)] : n \in EditMods}
    \cup {[op |-> "app", module |-> n, val |-> a] :
             n \in EditMods, a \in {App("app_2"), App(None), App("empty")}}
    \cup {[op |-> "import", module |-> n, val |-> i] :
             n \in EditMods,
             i \in {ImportList(<<Mc>>), ImportStr(Mab)}}
    \cup {[op |-> "shadow", module |-> n, val |-> dir] :
             n \in EditMods, dir \in Dirs}

\* A second file of the same module name, in another directory.
Shadow(module_name) ==
    File(NoImport, <<Entry(Wy, "def_shadow")>>, <<>>, NoApp)

Edit(d, e) ==
    LET dir == Home(e.module)
        p == YamlFilename(e.module)
    IN  IF e.op = "shadow"
        THEN IF p \in DOMAIN d[e.val] THEN d
             ELSE [d EXCEPT ![e.val] = (p :> Shadow(e.module)) @@ d[e.val]]
        ELSE IF p \notin DOMAIN d[dir] THEN d
        ELSE CASE e.op = "remove" ->
                    [d EXCEPT ![dir] = [q \in DOMAIN d[dir] \ {p} |-> d[dir][q]]]
               [] e.op = "malform" -> [d EXCEPT ![dir][p] = Malformed]
               [] e.op = "widgets" -> [d EXCEPT ![dir][p].widgets = e.val]
               [] e.op = "data" -> [d EXCEPT ![dir][p].data = e.val]
               [] e.op = "app" -> [d EXCEPT ![dir][p].app = e.val]
               [] e.op = "import" -> [d EXCEPT ![dir][p].import = e.val]

\* main imports a module that has no file
Dangling ==
    Edit(Tree(Mm :> File(ImportList(<<Mc, Ma>>), W(Mm, <<Wx>>), <<>>,
                         App("app_m"))
           @@ Ma :> File(NoImport, W(Ma, <<Wx>>), W(Ma, <<Dk>>), NoApp)),
         [op |-> "remove", module |-> Mc, val |-> 0])

\* a dotted module name next to a dotted widget key
Dotted ==
    Tree(Mm :> File(ImportList(<<Ma, Mdot>>), W(Mm, <<Wx>>), <<>>,
                    App("app_m"))
      @@ Ma :> File(NoImport, W(Ma, <<Wbx>>), <<>>, NoApp)
      @@ Mdot :> File(NoImport, W(Mdot, <<Wx>>), W(Mdot, <<Dk>>), NoApp))

Bases == {Fixture, RootLeaf, Cyclic, Bare, Plain, Dangling, Dotted}

MaxEdits == 1

RECURSIVE Edited(_)
Edited(n) ==
    IF n = 0 THEN Bases
    ELSE Edited(n - 1) \cup {Edit(d, e) : d \in Edited(n - 1), e \in Edits}

Trees == Edited(MaxEdits)

\* Every search directory exists and is a directory.
AllDirs == [dir \in Dirs |-> "dir"]

\* At most one directory that a caller names is missing or is a regular file.
DirKinds ==
    {AllDirs}
    \cup {[AllDirs EXCEPT ![dir] = k] :
             dir \in {LayoutsDir, ExtraDir}, k \in {"missing", "file"}}

\* Nothing exists below a path that is not a directory.
Wipe(d, kinds) ==
    [dir \in Dirs |-> IF kinds[dir] = "dir" THEN d[dir] ELSE <<>>]

-----------------------------------------------------------------------------
(* Specifications *)

InitWith(p) ==
    /\ prog = p
    /\ \E d \in Trees : \E kinds \in DirKinds :
           /\ kinds = AllDirs \/ d \in Bases
           /\ disk = Wipe(d, kinds)
           /\ dir_kind = kinds
    \* Lang(layouts_paths=[LayoutsDir])
    /\ layouts_paths = <<BuiltinDir, LayoutsDir>>
    /\ widget_definitions = <<>>
    /\ data_definitions = <<>>
    /\ lang_app_config = None
    /\ queue = <<>>
    /\ visited = {}
    /\ pc = "idle"
    /\ result = Running
    /\ calls = 0
    \* YAMLAggregator(LayoutsDir, [LayoutsDir, ExtraDir])
    /\ search_paths = <<LayoutsDir, ExtraDir>>
    /\ widgets = <<>>
    /\ data = <<>>
    /\ app_config = None
    /\ visited_modules = {}
    /\ stack = <<>>
    /\ apc = "idle"
    /\ document = NoDocument
    /\ again = NotRun
    /\ located = <<>> /\ loaded = <<>> /\ merged = <<>> /\ wrote = <<>>
    /\ opened = <<>>
    /\ skips = <<>>
    /\ entry = [widgets |-> <<>>, data |-> <<>>, app |-> None]
    /\ returns = <<>>

Init == \E p \in {"lang", "agg"} : InitWith(p)

Next == LangNext \/ AggNext

Spec == Init /\ [][Next]_vars

InitLang == InitWith("lang")

SpecLang == InitLang /\ [][LangNext]_vars

InitAgg == InitWith("agg")

SpecAgg == InitAgg /\ [][AggNext]_vars

\* Both resolvers are single-threaded loops: a step that can be taken is taken.
FairSpec == Spec /\ WF_vars(Next)


-----------------------------------------------------------------------------
(* Vocabulary of the properties *)

Range(seq) == {seq[i] : i \in 1..Len(seq)}

NoRepeat(seq) == \A i, j \in 1..Len(seq) : seq[i] = seq[j] => i = j

Last(seq) == seq[Len(seq)]

LangDone == prog = "lang" /\ pc = "returned"

AggDone == prog = "agg" /\ apc = "built"

\* The main module of the current load_main_module call.
LangMain == IF located # <<>> THEN located[1] ELSE Head(queue)

HasFile(paths, module_name) == FindFile(paths, module_name).found

IsMalformed(paths, module_name) ==
    /\ HasFile(paths, module_name)
    /\ ~FileAt(FindFile(paths, module_name)).parses

\* What a module contributes: its file's content when the file is found and
\* well-formed, nothing otherwise.
Contribution(paths, module_name) ==
    IF HasFile(paths, module_name) /\ ~IsMalformed(paths, module_name)
    THEN FileAt(FindFile(paths, module_name))
    ELSE EmptyFile

\* The module names an import value names: a bare string is one name.
ImportEntries(import) ==
    IF import.kind = "str" THEN {import.str} ELSE Range(import.names)

\* The module names reachable from S through import entries.
RECURSIVE Reach(_, _)
Reach(paths, S) ==
    LET T == S \cup UNION {ImportEntries(Contribution(paths, n).import) :
                              n \in S}
    IN  IF T = S THEN S ELSE Reach(paths, T)

DefinesWidget(paths, module_name, key) ==
    key \in Keys(Contribution(paths, module_name).widgets)

DefinesData(paths, module_name, key) ==
    key \in Keys(Contribution(paths, module_name).data)

\* The value a mapping of a file gives a key.
ValueOf(mapping, key) ==
    mapping[CHOOSE i \in 1..Len(mapping) : mapping[i].k = key].v

\* The last module of order that is in S.
LastIn(order, S) ==
    order[CHOOSE i \in 1..Len(order) :
              /\ order[i] \in S
              /\ \A j \in (i + 1)..Len(order) : order[j] \notin S]

-----------------------------------------------------------------------------
(* C1 *)

\* C1 (as claimed): when a resolution completes without error, the visited
\* set is exactly the set of module names reachable from the seeds through
\* import entries, for Lang.load_main_module and for
\* YAMLAggregator.process_module alike.
C1_VisitedIsReachable ==
    /\ (LangDone /\ result = Ok) =>
           visited = Reach(layouts_paths, {LangMain, Builtin})
    /\ AggDone => visited_modules = Reach(search_paths, {AggMain})

\* The termination half of C1: every resolution that was started returns.
C1_Terminates ==
    /\ (prog = "lang" /\ pc = "loop") ~> (pc = "returned")
    /\ (prog = "agg" /\ apc = "run") ~> (apc = "built")

\* The aggregator's half of C1.
C1_AggVisitedIsReachable ==
    AggDone => visited_modules = Reach(search_paths, {AggMain})

\* Lang's half of C1 for trees without a bare-string import.
C1_LangVisitedIsReachableLists ==
    (/\ LangDone /\ result = Ok
     /\ \A n \in visited :
            Contribution(layouts_paths, n).import.kind # "str") =>
        visited = Reach(layouts_paths, {LangMain, Builtin})


-----------------------------------------------------------------------------
(* C2 *)

\* The next step pops or is handed a module name that is already visited.
Revisiting ==
    \/ /\ prog = "lang" /\ pc = "loop" /\ queue # <<>>
       /\ Head(queue) \in visited
    \/ /\ prog = "agg" /\ apc = "run" /\ stack # <<>>
       /\ Head(stack).next <= Len(Head(stack).imports)
       /\ Head(stack).imports[Head(stack).next] \in visited_modules

\* C2: during one resolution call each module name is located, loaded and
\* merged at most once, and a step that meets an already visited name leaves
\* the merged collections (and the locator and loader) untouched.
C2_AtMostOnce ==
    [][/\ NoRepeat(located') /\ NoRepeat(loaded') /\ NoRepeat(merged')
       /\ NoRepeat(wrote')
       /\ Revisiting =>
              UNCHANGED <<widget_definitions, data_definitions,
                          lang_app_config, widgets, data, app_config,
                          located, loaded, merged, wrote>>]_vars

\* A module that was merged was met again and skipped, in a finished run.
C2_Witness ==
    /\ LangDone \/ AggDone
    /\ Range(skips) \cap Range(merged) # {}

-----------------------------------------------------------------------------
(* C3 *)

\* C3 (as claimed): under strict policy, whenever two distinct visited
\* modules both define the same widget key, resolution fails with a
\* duplicate-definition error (a resolution that some other error ended
\* first is left aside).
C3_SameKeyFails ==
    LangDone =>
        \A v1, v2 \in visited :
            (/\ v1 # v2
             /\ \E w \in {Wx, Wy} : /\ DefinesWidget(layouts_paths, v1, w)
                                    /\ DefinesWidget(layouts_paths, v2, w)
             /\ result.kind \in {"Ok", "DuplicateWidget"})
            => result.kind = "DuplicateWidget"

\* C3 (amended): widget keys are stored qualified. A module whose qualified
\* name "<module>.<key>" is already in the instance's widget definitions makes
\* resolution fail with a duplicate-widget error, the error names that
\* qualified name of the module being merged and no second module, and no
\* qualified name is inserted twice.
C3_QualifiedNameFails ==
    LangDone =>
        /\ result.kind = "DuplicateWidget" =>
               \E w \in Keys(Contribution(layouts_paths, Last(located)).widgets) :
                   /\ result.what = FullName(Last(located), w)
                   /\ result.what \in DOMAIN widget_definitions
                   /\ <<"widget", Last(located), w>> \notin Range(wrote)
        /\ (\E v \in Range(merged) :
               \E w \in Keys(Contribution(layouts_paths, v).widgets) :
                   FullName(v, w) \in DOMAIN entry.widgets)
           => result.kind = "DuplicateWidget"
        /\ \A i, j \in 1..Len(wrote) :
               (/\ wrote[i][1] = "widget" /\ wrote[j][1] = "widget"
                /\ FullName(wrote[i][2], wrote[i][3])
                       = FullName(wrote[j][2], wrote[j][3]))
               => i = j

\* A load on an instance that already holds the module's qualified widget
\* name has returned the duplicate-widget error.
C3_Witness ==
    /\ LangDone
    /\ result.kind = "DuplicateWidget"
    /\ result.what \in DOMAIN entry.widgets

-----------------------------------------------------------------------------
(* C4 *)

AppContributors ==
    {v \in visited : Contribution(layouts_paths, v).app.val # None}

\* C4 (as claimed): load_main_module returns Ok only if, over the modules
\* visited by the call, at least one widget definition was merged and exactly
\* one module contributed an app block.
C4_OkNeedsWidgetAndOneApp ==
    (LangDone /\ result = Ok) =>
        /\ \E i \in 1..Len(wrote) : wrote[i][1] = "widget"
        /\ Cardinality(AppContributors) = 1

\* C4 on an instance whose merged collections are empty when the call begins.
C4_OnEmptyInstance ==
    (/\ LangDone /\ result = Ok
     /\ DOMAIN entry.widgets = {} /\ DOMAIN entry.data = {}
     /\ entry.app = None) =>
        /\ \E i \in 1..Len(wrote) : wrote[i][1] = "widget"
        /\ Cardinality(AppContributors) = 1


-----------------------------------------------------------------------------
(* C5 *)

WidgetKeys == {Wx, Wy, Wbx}

DataKeys == {Dk}

\* C5: in the aggregator a collision does not stop the traversal, every
\* module that has a file is merged, and each merged widget or data entry is
\* the one of the module merged last among those that define the key; in the
\* fixture (main imports a and b, a imports c, b and c define x) the final x
\* is b's.
C5_LastMergedWins ==
    AggDone =>
        /\ Range(merged) = {n \in visited_modules : HasFile(search_paths, n)}
        /\ \A k \in WidgetKeys :
               IF \E n \in Range(merged) : DefinesWidget(search_paths, n, k)
               THEN LET owner == LastIn(merged,
                                   {n \in Range(merged) :
                                       DefinesWidget(search_paths, n, k)})
                    IN  /\ k \in DOMAIN widgets
                        /\ widgets[k] =
                               [module |-> owner,
                                def |-> ValueOf(Contribution(search_paths,
                                                             owner).widgets, k)]
               ELSE k \notin DOMAIN widgets
        /\ \A k \in DataKeys :
               IF \E n \in Range(merged) : DefinesData(search_paths, n, k)
               THEN LET owner == LastIn(merged,
                                   {n \in Range(merged) :
                                       DefinesData(search_paths, n, k)})
                    IN  /\ k \in DOMAIN data
                        /\ data[k] = ValueOf(Contribution(search_paths,
                                                          owner).data, k)
               ELSE k \notin DOMAIN data
        /\ disk = Fixture => widgets[Wx] = [module |-> Mb, def |-> Tag(Mb)]

\* The fixture has been aggregated: c's x was merged first, b's x is final.
C5_Witness ==
    /\ AggDone
    /\ disk = Fixture
    /\ merged = <<Mc, Ma, Mb, Mm>>
    /\ widgets[Wx].module = Mb

-----------------------------------------------------------------------------
(* C6 *)

DataWriters(k) ==
    {i \in 1..Len(wrote) : wrote[i][1] = "data" /\ wrote[i][3] = k}

\* C6: under strict policy, if two distinct visited modules define the same
\* data key the call returns an error, never Ok; and in a successful result
\* every data key was inserted exactly once, by the one module that defines
\* it.
C6_DataKeysUnique ==
    LangDone =>
        /\ (\E v1, v2 \in visited : \E k \in DataKeys :
               /\ v1 # v2
               /\ DefinesData(layouts_paths, v1, k)
               /\ DefinesData(layouts_paths, v2, k))
           => result.kind \notin {"Ok", "none"}
        /\ result = Ok =>
               \A k \in DOMAIN data_definitions :
                   LET definers == {v \in visited :
                                       DefinesData(layouts_paths, v, k)}
                   IN  IF k \in DOMAIN entry.data
                       THEN /\ definers = {} /\ DataWriters(k) = {}
                            /\ data_definitions[k] = entry.data[k]
                       ELSE /\ Cardinality(definers) = 1
                            /\ Cardinality(DataWriters(k)) = 1
                            /\ \A v \in definers :
                                   data_definitions[k] =
                                       ValueOf(Contribution(layouts_paths,
                                                            v).data, k)

\* Two visited modules define the same data key and the call, begun on an
\* empty instance, returned the duplicate-data error.
C6_Witness ==
    /\ LangDone
    /\ DOMAIN entry.data = {}
    /\ result.kind = "DuplicateData"
    /\ \E v1, v2 \in visited :
           /\ v1 # v2
           /\ DefinesData(layouts_paths, v1, result.what)
           /\ DefinesData(layouts_paths, v2, result.what)


-----------------------------------------------------------------------------
(* C7 *)

\* C7: a module name with no file in any search directory ends a Lang call
\* at once with the module-not-found error (it is the last name located and
\* nothing of it is loaded or merged); in the aggregator nothing of it is
\* loaded, recursed into or merged, and every other reachable module that has
\* a file is still merged.
C7_ModuleNotFound ==
    /\ prog = "lang" =>
           \A i \in 1..Len(located) :
               ~HasFile(layouts_paths, located[i]) =>
                   /\ i = Len(located)
                   /\ pc # "loop"
                   /\ result = Error("ModuleNotFound", located[i])
                   /\ located[i] \notin Range(loaded) \cup Range(merged)
    /\ prog = "agg" =>
           \A n \in visited_modules :
               ~HasFile(search_paths, n) =>
                   /\ n \notin Range(loaded) \cup Range(merged)
                   /\ \A i \in 1..Len(stack) : stack[i].module_name # n
                   /\ \A i \in 1..Len(wrote) : wrote[i][2] # n
    /\ AggDone =>
           Range(merged) = {n \in Reach(search_paths, {AggMain}) :
                               HasFile(search_paths, n)}

\* The aggregator met a module without a file and merged a module it located
\* after that one.
C7_Witness ==
    /\ AggDone
    /\ \E i \in 1..Len(located) : \E j \in (i + 1)..Len(located) :
           /\ ~HasFile(search_paths, located[i])
           /\ located[j] \in Range(merged)

-----------------------------------------------------------------------------
(* C8 *)

\* C8 (as claimed): a module file that fails to parse is fatal in both
\* resolvers: Lang returns the parse error at once, and the aggregator never
\* completes a run in which a visited module's file is malformed.
C8_ParseErrorIsFatal ==
    /\ prog = "lang" =>
           \A i \in 1..Len(located) :
               IsMalformed(layouts_paths, located[i]) =>
                   /\ i = Len(located)
                   /\ pc # "loop"
                   /\ result.kind = "ParseError"
    /\ AggDone =>
           \A n \in visited_modules : ~IsMalformed(search_paths, n)

\* Lang's half of C8.
C8_LangParseErrorIsFatal ==
    prog = "lang" =>
        \A i \in 1..Len(located) :
            IsMalformed(layouts_paths, located[i]) =>
                /\ i = Len(located)
                /\ pc # "loop"
                /\ result.kind = "ParseError"

-----------------------------------------------------------------------------
(* C9 *)

\* The names the import entries of the modules of S name.
Imported(paths, S) ==
    UNION {ImportEntries(Contribution(paths, n).import) : n \in S}

\* C9 (as claimed): in both resolvers a bare-string import names exactly one
\* module, the one with the whole string as its name: once a module is
\* through, the names of its import entries (and no others) are queued or
\* visited.
C9_BareStringIsOneName ==
    /\ (prog = "lang" /\ pc = "loop") =>
           /\ Imported(layouts_paths, Range(merged))
                  \subseteq visited \cup Range(queue)
           /\ visited \cup Range(queue)
                  \subseteq {LangMain, Builtin}
                            \cup Imported(layouts_paths, Range(merged))
    /\ AggDone =>
           /\ Imported(search_paths, Range(merged)) \subseteq visited_modules
           /\ visited_modules
                  \subseteq {AggMain} \cup Imported(search_paths, Range(merged))

\* The aggregator's half of C9.
C9_AggBareStringIsOneName ==
    AggDone =>
        /\ Imported(search_paths, Range(merged)) \subseteq visited_modules
        /\ visited_modules
               \subseteq {AggMain} \cup Imported(search_paths, Range(merged))

-----------------------------------------------------------------------------
(* C10 *)

HasApp(n) == Contribution(search_paths, n).app.present

\* C10 (as claimed): in the aggregator, once an app definition has been
\* merged, no later step changes the merged app configuration.
C10_FirstAppIsKept ==
    [][(prog = "agg" /\ app_config # None) => app_config' = app_config]_vars

\* C10 (amended): the last one wins. The merged app configuration is always
\* the app value of the most recently merged module that has an app key, and
\* None while no merged module has one.
C10_LastAppWins ==
    prog = "agg" =>
        IF \E n \in Range(merged) : HasApp(n)
        THEN app_config =
                 Contribution(search_paths,
                              LastIn(merged, {n \in Range(merged) : HasApp(n)})
                             ).app.val
        ELSE app_config = None

\* Two merged modules have different app blocks and the later one's is the
\* merged configuration.
C10_Witness ==
    /\ AggDone
    /\ \E i \in 1..Len(merged) : \E j \in (i + 1)..Len(merged) :
           /\ HasApp(merged[i]) /\ HasApp(merged[j])
           /\ Contribution(search_paths, merged[i]).app.val # None
           /\ Contribution(search_paths, merged[j]).app.val
                  # Contribution(search_paths, merged[i]).app.val
           /\ app_config = Contribution(search_paths, merged[j]).app.val
           /\ \A l \in (j + 1)..Len(merged) : ~HasApp(merged[l])

-----------------------------------------------------------------------------
(* C11 *)

\* <<module, key>> of every widget the modules visited by the call define.
VisitedWidgets ==
    {mw \in visited \X WidgetKeys : DefinesWidget(layouts_paths, mw[1], mw[2])}

\* <<module, key>> of every data entry the visited modules define.
VisitedData ==
    {mk \in visited \X DataKeys : DefinesData(layouts_paths, mk[1], mk[2])}

\* The merged collections are exactly what the visited modules define.
MergedIsVisitedContent ==
    /\ DOMAIN widget_definitions =
           {FullName(mw[1], mw[2]) : mw \in VisitedWidgets}
    /\ \A mw \in VisitedWidgets :
           widget_definitions[FullName(mw[1], mw[2])] =
               ValueOf(Contribution(layouts_paths, mw[1]).widgets, mw[2])
    /\ DOMAIN data_definitions = {mk[2] : mk \in VisitedData}
    /\ \A mk \in VisitedData :
           data_definitions[mk[2]] =
               ValueOf(Contribution(layouts_paths, mk[1]).data, mk[2])

\* C11 (as claimed): when load_main_module returns Ok, the merged widget
\* keys are exactly the qualified names "<m>.<w>" of the widgets w of the
\* visited modules m, each with m's definition, and the merged data is
\* exactly the union of the visited modules' data; the root-leaf tree gives
\* widgets {m.x, a.y}, data {k} and visited {m, a, builtin}.
C11_MergedIsVisitedContent ==
    (LangDone /\ result = Ok) =>
        /\ MergedIsVisitedContent
        /\ (disk = RootLeaf /\ LangMain = Mm) =>
               /\ visited = {Mm, Ma, Builtin}
               /\ DOMAIN widget_definitions = {FullName(Mm, Wx), FullName(Ma, Wy)}
               /\ DOMAIN data_definitions = {Dk}

\* C11 on an instance whose merged collections are empty when the call begins.
C11_OnEmptyInstance ==
    (/\ LangDone /\ result = Ok
     /\ DOMAIN entry.widgets = {} /\ DOMAIN entry.data = {}
     /\ entry.app = None) =>
        /\ MergedIsVisitedContent
        /\ (disk = RootLeaf /\ LangMain = Mm) =>
               /\ visited = {Mm, Ma, Builtin}
               /\ DOMAIN widget_definitions = {FullName(Mm, Wx), FullName(Ma, Wy)}
               /\ DOMAIN data_definitions = {Dk}

-----------------------------------------------------------------------------
(* C12 *)

\* The search path of the resolver that is running.
SearchPath == IF prog = "lang" THEN layouts_paths ELSE search_paths

\* The directories, by position in the search path, that hold a file path.
Holding(path) ==
    {i \in 1..Len(SearchPath) : path \in DOMAIN disk[SearchPath[i]]}

\* C12: the file the locator returns for a module name is the module name
\* with every "." replaced by "/" and ".yaml" appended, taken from the first
\* directory of the search path that holds such a file; a located module has
\* no file opened only when no directory of the search path holds one; and
\* Lang's search path begins with the builtin layouts directory.
C12_FirstMatchWins ==
    /\ \A i \in 1..Len(opened) :
           LET o == opened[i]
           IN  /\ Len(o.path) = Len(o.module) + 1
               /\ o.path[Len(o.path)] = ".yaml"
               /\ \A c \in 1..Len(o.module) :
                      o.path[c] = IF o.module[c] = "." THEN "/"
                                  ELSE o.module[c]
               /\ Holding(o.path) # {}
               /\ \A j \in 1..Len(SearchPath) :
                      (/\ j \in Holding(o.path)
                       /\ \A l \in Holding(o.path) : j <= l) <=>
                          SearchPath[j] = o.dir
    /\ \A n \in Range(located) :
           (\A i \in 1..Len(opened) : opened[i].module # n) =>
               Holding(YamlFilename(n)) = {}
    /\ prog = "lang" =>
           /\ layouts_paths[1] = BuiltinDir
           /\ \A i \in 1..Len(opened) :
                  opened[i].path \in DOMAIN disk[BuiltinDir] =>
                      opened[i].dir = BuiltinDir

\* Lang opened the builtin directory's file of a module that a caller's
\* directory holds too, and a module with a dotted name was opened from its
\* subdirectory path.
C12_Witness ==
    \/ /\ LangDone
       /\ \E i \in 1..Len(opened) :
              /\ opened[i].dir = BuiltinDir
              /\ opened[i].path \in DOMAIN disk[LayoutsDir]
    \/ /\ AggDone
       /\ \E i \in 1..Len(opened) :
              /\ opened[i].module = Mdot
              /\ opened[i].path = <<"a", "/", "b", ".yaml">>

-----------------------------------------------------------------------------
(* C13 *)

\* The sections of the document, in the order they were added.
Sections == document.sections

InOrder(sections) ==
    \E keep \in SUBSET {"app", "widgets", "data"} :
        sections = SelectSeq(<<"app", "widgets", "data">>,
                             LAMBDA x : x \in keep)

\* C13 (as claimed): the document aggregate returns has the section app
\* (widgets, data) exactly when some visited module contributed an app block
\* (a widget, a data entry), and the sections present are in the order app,
\* widgets, data.
C13_SectionsIffContributed ==
    AggDone =>
        /\ "app" \in Range(Sections) <=>
               \E n \in visited_modules :
                   /\ Contribution(search_paths, n).app.present
                   /\ Contribution(search_paths, n).app.val # None
        /\ "widgets" \in Range(Sections) <=>
               \E n \in visited_modules :
                   Contribution(search_paths, n).widgets # <<>>
        /\ "data" \in Range(Sections) <=>
               \E n \in visited_modules :
                   Contribution(search_paths, n).data # <<>>
        /\ InOrder(Sections)

\* The widgets and data halves of C13, and the order of the sections.
C13_WidgetsDataSections ==
    AggDone =>
        /\ "widgets" \in Range(Sections) <=>
               \E n \in visited_modules :
                   Contribution(search_paths, n).widgets # <<>>
        /\ "data" \in Range(Sections) <=>
               \E n \in visited_modules :
                   Contribution(search_paths, n).data # <<>>
        /\ InOrder(Sections)

-----------------------------------------------------------------------------
(* C14 *)

\* The definitions of the merged widgets, without the module that owns them.
Defs(ws) == [k \in DOMAIN ws |-> ws[k].def]

\* C14 (as claimed): the document aggregate produced, saved and resolved
\* again as one module without imports by a fresh aggregator, gives widgets,
\* data and app equal, key for key and definition for definition, to the
\* widgets, data and app the first aggregator holds.
C14_RoundTrip ==
    (AggDone /\ again.ran) =>
        /\ Defs(again.widgets) = Defs(widgets)
        /\ again.data = data
        /\ again.app_config = app_config

\* The widgets and data halves of C14.
C14_RoundTripWidgetsData ==
    (AggDone /\ again.ran) =>
        /\ Defs(again.widgets) = Defs(widgets)
        /\ again.data = data

-----------------------------------------------------------------------------
(* C15 *)

\* C15 (as claimed): neither Lang.load_main_module nor the aggregation
\* command line with extra search paths hands a module name to the locator
\* while one of the configured search directories is missing or is not a
\* directory.
C15_DirsValidatedFirst ==
    located # <<>> =>
        \A i \in 1..Len(SearchPath) : ValidDir(SearchPath[i])

\* What main does validate: nothing is located while the demo directory, the
\* first search path of the aggregator, is missing or is not a directory.
C15_DemoDirValidatedFirst ==
    (prog = "agg" /\ ~DemoDirValid) =>
        /\ located = <<>>
        /\ apc \in {"idle", "exit"}

-----------------------------------------------------------------------------
(* C16 *)

\* The import distance of module n from the modules of frontier, which are at
\* distance k; -1 when n is not reachable.
RECURSIVE DepthFrom(_, _, _, _, _)
DepthFrom(paths, n, frontier, seen, k) ==
    IF n \in frontier THEN k
    ELSE IF frontier = {} THEN -1
    ELSE DepthFrom(paths, n,
                   Imported(paths, frontier) \ (seen \cup frontier),
                   seen \cup frontier, k + 1)

\* Import depth in the current load_main_module call: the seeds are at 0.
LangDepth(n) == DepthFrom(layouts_paths, n, {LangMain, Builtin}, {}, 0)

\* Every module above merged[j] in the import graph was merged before it.
LevelsBefore(j) ==
    \A n \in Reach(layouts_paths, {LangMain, Builtin}) :
        LangDepth(n) < LangDepth(merged[j]) =>
            \E i \in 1..(j - 1) : merged[i] = n

\* C16 (as claimed): in load_main_module, with the main module and builtin
\* at import depth 0 and depth the shortest import distance from them, every
\* module at depth k is merged before any module at depth k+1 is merged.
C16_BreadthFirst ==
    prog = "lang" =>
        \A j \in 1..Len(merged) :
            merged[j] \in Reach(layouts_paths, {LangMain, Builtin}) =>
                LevelsBefore(j)

\* C16 while no merged module has a bare-string import.
C16_BreadthFirstLists ==
    (/\ prog = "lang"
     /\ \A n \in Range(merged) :
            Contribution(layouts_paths, n).import.kind # "str") =>
        \A j \in 1..Len(merged) :
            /\ merged[j] \in Reach(layouts_paths, {LangMain, Builtin})
            /\ LevelsBefore(j)

-----------------------------------------------------------------------------
(* C17 *)

\* The modules whose process_module call has not returned yet.
InProgress == {stack[i].module_name : i \in 1..Len(stack)}

\* C17 (as claimed): in the aggregator, for every merged module M and every
\* module I of M's import entries that has a file, I was merged before M,
\* whatever the import graph, cyclic ones included.
C17_ImportsMergedFirst ==
    prog = "agg" =>
        \A j \in 1..Len(merged) :
            \A I \in ImportEntries(Contribution(search_paths,
                                                merged[j]).import) :
                HasFile(search_paths, I) =>
                    \E i \in 1..(j - 1) : merged[i] = I

\* C17 (amended): when a module M is merged, every module I of its import
\* entries that has a file either is merged already, its own imports
\* handled the same way, or is still being resolved further down the call
\* stack (M itself, or an ancestor that imports M through a cycle) and is
\* merged after M; a merged module is never in progress.
C17_ImportsFirstUnlessInProgress ==
    [][(prog = "agg" /\ merged' # merged) =>
           /\ \A I \in ImportEntries(Head(stack).content.import) :
                  HasFile(search_paths, I) =>
                      \/ I \in Range(merged)
                      \/ I \in InProgress
           /\ Range(merged) \cap InProgress = {}
           /\ merged' = Append(merged, Head(stack).module_name)]_vars

\* The cyclic tree has been aggregated: b was merged before a, which it
\* imports, and a before m, which imports it.
C17_Witness ==
    /\ AggDone
    /\ disk = Cyclic
    /\ merged = <<Mb, Ma, Mm>>

-----------------------------------------------------------------------------
(* C18 *)

\* The merged modules that define widget key k, data key k.
WidgetDefiners(k) ==
    {n \in Range(merged) : DefinesWidget(search_paths, n, k)}

DataDefiners(k) ==
    {n \in Range(merged) : DefinesData(search_paths, n, k)}

\* C18 (as claimed): in the aggregator, of the modules that define the same
\* widget or data key, the one marked visited last gives the final merged
\* entry.
C18_LaterVisitedOverwrites ==
    AggDone =>
        /\ \A k \in WidgetKeys :
               WidgetDefiners(k) # {} =>
                   widgets[k].module = LastIn(located, WidgetDefiners(k))
        /\ \A k \in DataKeys :
               DataDefiners(k) # {} =>
                   data[k] = ValueOf(Contribution(search_paths,
                                         LastIn(located, DataDefiners(k))
                                                  ).data, k)

\* C18 (amended): later-merged modules overwrite earlier-merged ones. If A
\* is merged before B and both define a key, the final entry is not A's, and
\* it is B's when no module merged after B defines the key. A module is
\* marked visited before its imports and merged after them, so a module
\* overwrites the modules it imports although it was visited first.
C18_LaterMergedOverwrites ==
    AggDone =>
        \A i \in 1..Len(merged) : \A j \in (i + 1)..Len(merged) :
            LET A == merged[i]
                B == merged[j]
                after == {merged[l] : l \in (j + 1)..Len(merged)}
            IN  /\ \A k \in WidgetKeys :
                       (A \in WidgetDefiners(k) /\ B \in WidgetDefiners(k)) =>
                           /\ widgets[k].module # A
                           /\ after \cap WidgetDefiners(k) = {} =>
                                  widgets[k] =
                                      [module |-> B,
                                       def |-> ValueOf(Contribution(
                                                   search_paths, B).widgets,
                                                   k)]
                /\ \A k \in DataKeys :
                       (A \in DataDefiners(k) /\ B \in DataDefiners(k)) =>
                           /\ data[k] # ValueOf(Contribution(search_paths,
                                                             A).data, k)
                           /\ after \cap DataDefiners(k) = {} =>
                                  data[k] = ValueOf(Contribution(search_paths,
                                                                 B).data, k)

\* Position of a name in a sequence without repeats.
IndexIn(order, n) == CHOOSE i \in 1..Len(order) : order[i] = n

\* Two modules define the same data key; the one visited first was merged
\* last and its definition is the final entry.
C18_Witness ==
    /\ AggDone
    /\ \E A, B \in DataDefiners(Dk) :
           /\ IndexIn(located, A) < IndexIn(located, B)
           /\ IndexIn(merged, B) < IndexIn(merged, A)
           /\ data[Dk] = ValueOf(Contribution(search_paths, A).data, Dk)
           /\ data[Dk] # ValueOf(Contribution(search_paths, B).data, Dk)

-----------------------------------------------------------------------------
(* C19 *)

\* The widget keys of a visited module's file.
WidgetsOf(n) == Keys(Contribution(layouts_paths, n).widgets)

\* C19 (as claimed): in load_main_module the qualified names of the widgets
\* of two distinct visited modules never coincide, dotted module names
\* included, and no duplicate-widget error names a qualified name that
\* another module of the same call inserted.
C19_QualifiedKeysDistinct ==
    prog = "lang" =>
        /\ \A m1, m2 \in visited :
               m1 # m2 =>
                   \A w1 \in WidgetsOf(m1) : \A w2 \in WidgetsOf(m2) :
                       FullName(m1, w1) # FullName(m2, w2)
        /\ (pc = "returned" /\ result.kind = "DuplicateWidget") =>
               \A i \in 1..Len(wrote) :
                   (/\ wrote[i][1] = "widget"
                    /\ FullName(wrote[i][2], wrote[i][3]) = result.what)
                   => wrote[i][2] = Last(located)

\* C19 for widget keys without a dot.
C19_UndottedKeysDistinct ==
    (/\ prog = "lang"
     /\ \A n \in visited : \A w \in WidgetsOf(n) : "." \notin Range(w)) =>
        /\ \A m1, m2 \in visited :
               m1 # m2 =>
                   \A w1 \in WidgetsOf(m1) : \A w2 \in WidgetsOf(m2) :
                       FullName(m1, w1) # FullName(m2, w2)
        /\ (pc = "returned" /\ result.kind = "DuplicateWidget") =>
               \A i \in 1..Len(wrote) :
                   (/\ wrote[i][1] = "widget"
                    /\ FullName(wrote[i][2], wrote[i][3]) = result.what)
                   => wrote[i][2] = Last(located)

-----------------------------------------------------------------------------
(* C20 *)

DuplicateKinds == {"DuplicateWidget", "DuplicateData", "MultipleApp"}

\* Two finished calls left the same result and the same merged collections.
SameOutcome(r1, r2) ==
    /\ r1.result = r2.result
    /\ r1.widgets = r2.widgets
    /\ r1.data = r2.data
    /\ r1.app = r2.app

\* C20 (as claimed): after a load_main_module call that returned Ok, the next
\* call on the same instance with no dispose() in between never returns Ok
\* (repeating the main module, it returns a duplicate-definition or
\* multiple-app error). After dispose() the
\* merged collections are empty, and a reload returns what the first load
\* returned and leaves what it left.
C20_SecondLoadNeverOk ==
    prog = "lang" =>
        /\ \A i \in 1..(Len(returns) - 1) :
               (returns[i].result = Ok /\ ~returns[i].disposed) =>
                   /\ returns[i + 1].result # Ok
                   /\ returns[i + 1].module_name = returns[i].module_name =>
                          returns[i + 1].result.kind \in DuplicateKinds
        /\ (pc = "idle" /\ calls > 0) =>
               /\ widget_definitions = <<>>
               /\ data_definitions = <<>>
               /\ lang_app_config = None
        /\ \A i \in 1..(Len(returns) - 1) :
               (/\ returns[i].disposed
                /\ returns[i + 1].module_name = returns[1].module_name) =>
                   SameOutcome(returns[i + 1], returns[1])

\* The first half of C20 for a call that repeats the main module of a
\* successful call that had begun with empty collections.
C20_ReloadNeverOk ==
    prog = "lang" =>
        \A i \in 1..(Len(returns) - 1) :
            (/\ returns[i].result = Ok /\ ~returns[i].disposed
             /\ returns[i].fresh
             /\ returns[i + 1].module_name = returns[i].module_name) =>
                returns[i + 1].result.kind \in DuplicateKinds

\* The second half of C20.
C20_DisposeThenReload ==
    prog = "lang" =>
        /\ (pc = "idle" /\ calls > 0) =>
               /\ widget_definitions = <<>>
               /\ data_definitions = <<>>
               /\ lang_app_config = None
        /\ \A i \in 1..(Len(returns) - 1) :
               (/\ returns[i].disposed
                /\ returns[i + 1].module_name = returns[1].module_name) =>
                   SameOutcome(returns[i + 1], returns[1])

====
